---- MODULE Spec2Model ----
(***************************************************************************)
(* Market-intelligence dashboard: the React App component (state, the      *)
(* loadCategoryData pipeline, the runAutoSync backfill pass, the user's    *)
(* handlers) and the IndexedDB store module (saveDailyData,                *)
(* queryMarketData, hasDataForDate).                                       *)
(*                                                                         *)
(* JavaScript strings are sequences of one-character strings, compared by  *)
(* code unit.  A value that may be undefined or null is <<>> then, and     *)
(* <<v>> when it is the value v.                                           *)
(***************************************************************************)
EXTENDS Integers, Sequences, FiniteSets, TLC

VARIABLES
  view,            \* 'dashboard' | 'search'
  activeCategory,  \* the selected tab
  selectedDate,    \* the date of the date picker
  isSyncing,       \* the sync status bar is shown
  syncProgress,    \* [current, total, finished]
  data,            \* category -> SearchResult or null
  status,          \* category -> [loading, error]
  store,           \* committed rows of the object store, in key order
  nextKey,         \* current number of the store's key generator
  txq,             \* readwrite transactions in creation order; the head runs
  pending,         \* rows the running transaction has added, not yet committed
  calls,           \* invocations of loadCategoryData, one slot each
  sync,            \* position of runAutoSync: the list it walks, the turn it is in,
                   \* the failures it logged, the rows the store held when it looked
  syncLog,         \* categories runAutoSync has called the pipeline for
  clicks,          \* user events handled so far
  client           \* position of a direct caller of the store module

vars == <<view, activeCategory, selectedDate, isSyncing, syncProgress, data,
          status, store, nextKey, txq, pending, calls, sync, syncLog,
          clicks, client>>

appVars == <<view, activeCategory, selectedDate, isSyncing, syncProgress,
             data, status, calls, sync, syncLog, clicks>>

(***************************************************************************)
(* Bounds                                                                  *)
(***************************************************************************)
MaxClicks == 1       \* user events (tab, date, view, refresh) in one session
MaxMissing == 2      \* categories without a row of today when the session starts
MaxBatch == 2        \* items in one batch when the store module is driven directly
MaxRows == 3         \* rows in the store when the store module is driven directly

(***************************************************************************)
(* types.ts                                                                *)
(***************************************************************************)
TRADING == "TRADING"
TENDER == "TENDER"
BID_WIN == "BID_WIN"
DEMAND == "DEMAND"

\* Object.values(Category): the enumeration in declaration order
Category == <<TRADING, TENDER, BID_WIN, DEMAND>>

CategorySet == {Category[i] : i \in 1..Len(Category)}

null == <<>>

(***************************************************************************)
(* JavaScript strings                                                      *)
(***************************************************************************)
CharCode ==
  [c \in {"-", "0", "1", "8", "9", "A", "B", "a", "b"} |->
     CASE c = "-" -> 45 [] c = "0" -> 48 [] c = "1" -> 49 [] c = "8" -> 56 [] c = "9" -> 57
       [] c = "A" -> 65 [] c = "B" -> 66 [] c = "a" -> 97 [] c = "b" -> 98]

\* a < b on strings: the first differing code unit decides, a proper prefix is smaller
StrLess(a, b) ==
  \/ /\ Len(a) < Len(b)
     /\ \A i \in 1..Len(a) : a[i] = b[i]
  \/ \E i \in 1..Len(a) :
       /\ i <= Len(b)
       /\ \A j \in 1..(i - 1) : a[j] = b[j]
       /\ CharCode[a[i]] < CharCode[b[i]]

\* a.localeCompare(b) on date strings (digits and hyphens only)
localeCompare(a, b) == IF StrLess(a, b) THEN -1 ELSE IF StrLess(b, a) THEN 1 ELSE 0

LowerChar(c) == CASE c = "A" -> "a" [] c = "B" -> "b" [] OTHER -> c

toLowerCase(s) == [i \in 1..Len(s) |-> LowerChar(s[i])]

\* s.includes(sub)
includes(s, sub) ==
  \E i \in 0..(Len(s) - Len(sub)) : SubSeq(s, i + 1, i + Len(sub)) = sub

\* truthiness of an optional string: undefined and '' are falsy
Truthy(o) == o # <<>> /\ o[1] # <<>>

D08 == <<"0", "8">>
D09 == <<"0", "9">>
D10 == <<"1", "0">>

\* new Date().toISOString().split('T')[0]
Today == D10

\* what the date picker can hold (max = today)
PickerDates == {D09, D10}

(***************************************************************************)
(* services/db.ts                                                          *)
(***************************************************************************)
\* store.add(item): the next number of the key generator becomes the row's id
AddRow(item, key) ==
  [f \in DOMAIN item \cup {"id"} |-> IF f = "id" THEN key ELSE item[f]]

\* the mutation of TxCreate in which a new transaction takes the place of the
\* open ones
TxCreateAlone(owner, items) ==
  txq' = <<[owner |-> owner, items |-> items]>>

\* db.transaction(STORE_NAME, 'readwrite'): queued behind the open ones
TxCreate(owner, items) ==
  txq' = Append(txq, [owner |-> owner, items |-> items])

TxRunning == txq # <<>>

TxHead == txq[1]

\* await store.add(item), the request succeeds
TxAdd ==
  /\ TxRunning
  /\ Len(pending) < Len(TxHead.items)
  /\ pending' = Append(pending, AddRow(TxHead.items[Len(pending) + 1], nextKey))
  /\ nextKey' = nextKey + 1
  /\ UNCHANGED <<store, txq>>

TxAllAdded == TxRunning /\ Len(pending) = Len(TxHead.items)

\* the rows the requests not yet made add, keyed from key on
AddRows(items, key) == [k \in 1..Len(items) |-> AddRow(items[k], key + k - 1)]

TxRest == SubSeq(TxHead.items, Len(pending) + 1, Len(TxHead.items))

\* the remaining requests succeed and tx.done resolves: the rows become part of
\* the store
TxCommitBad ==
  /\ store' = store \o SubSeq(pending \o AddRows(TxRest, nextKey), 1, Len(TxHead.items) - 1)
  /\ nextKey' = nextKey + Len(TxRest)
  /\ pending' = <<>>
  /\ txq' = Tail(txq)

TxCommit ==
  /\ store' = store \o pending \o AddRows(TxRest, nextKey)
  /\ nextKey' = nextKey + Len(TxRest)
  /\ pending' = <<>>
  /\ txq' = Tail(txq)

\* a request or the commit fails: the transaction aborts, its adds are undone
\* and the key generator is reverted
TxAbortBad ==
  /\ store' = store \o pending
  /\ pending' = <<>>
  /\ txq' = Tail(txq)
  /\ UNCHANGED nextKey

TxAbort ==
  /\ store' = store
  /\ pending' = <<>>
  /\ nextKey' = nextKey - Len(pending)
  /\ txq' = Tail(txq)

\* index('by-date').getAll(date)
byDate(rows, date) == SelectSeq(rows, LAMBDA r : r.date = date)

hasDataForDateBad(rows, date, category) ==
  \E k \in 1..Len(rows) : rows[k].category = category

hasDataForDate(rows, date, category) ==
  LET items == byDate(rows, date)
  IN  \E k \in 1..Len(items) : items[k].category = category

\* the categories of the enumeration without a row of that date, in order
getMissingCategoriesForDate(rows, date) ==
  SelectSeq(Category, LAMBDA c : ~hasDataForDate(rows, date, c))

\* (a, b) => b.date.localeCompare(a.date): positive when a belongs after b
newestFirst(a, b) == localeCompare(b.date, a.date)

\* Array.prototype.sort is stable: x goes before the first element that
\* belongs after it, behind every element it ties with
SortInsert(sorted, x) ==
  LET later == {i \in 1..Len(sorted) : newestFirst(sorted[i], x) > 0}
      at == IF later = {} THEN Len(sorted) + 1
            ELSE CHOOSE i \in later : \A j \in later : i <= j
  IN  SubSeq(sorted, 1, at - 1) \o <<x>> \o SubSeq(sorted, at, Len(sorted))

RECURSIVE sort(_)
sort(rows) ==
  IF rows = <<>> THEN <<>>
  ELSE SortInsert(sort(SubSeq(rows, 1, Len(rows) - 1)), rows[Len(rows)])

\* the filter callback of queryMarketData
matchBad(item, params) ==
  /\ ~(Truthy(params.startDate) /\ StrLess(item.date, params.startDate[1]))
  /\ ~(Truthy(params.endDate) /\ ~StrLess(item.date, params.endDate[1]))
  /\ ~(params.category # <<>> /\ item.category # params.category[1])
  /\ ~(Truthy(params.region) /\ ~includes(item.region, params.region[1]))
  /\ ~(/\ Truthy(params.entityKeyword)
        /\ ~includes(toLowerCase(item.entity), toLowerCase(params.entityKeyword[1]))
        /\ ~includes(toLowerCase(item.title), toLowerCase(params.entityKeyword[1])))

match(item, params) ==
  /\ ~(Truthy(params.startDate) /\ StrLess(item.date, params.startDate[1]))
  /\ ~(Truthy(params.endDate) /\ StrLess(params.endDate[1], item.date))
  /\ ~(params.category # <<>> /\ item.category # params.category[1])
  /\ ~(Truthy(params.region) /\ ~includes(item.region, params.region[1]))
  /\ ~(/\ Truthy(params.entityKeyword)
        /\ ~includes(toLowerCase(item.entity), toLowerCase(params.entityKeyword[1]))
        /\ ~includes(toLowerCase(item.title), toLowerCase(params.entityKeyword[1])))

\* db.getAll(STORE_NAME) returns the rows in key order
queryMarketDataBad(rows, params) ==
  SelectSeq(rows, LAMBDA r : match(r, params))

queryMarketData(rows, params) ==
  sort(SelectSeq(rows, LAMBDA r : match(r, params)))

(***************************************************************************)
(* services/gemini.ts: the text of the response and its parse              *)
(*                                                                         *)
(* A text is a sequence of lexical units: the punctuation of JSON, the     *)
(* quote, the space, the digits, null, the code fence, and words.  No      *)
(* pattern of the code matches across the border of two units otherwise    *)
(* than unit by unit, so that matching on units is matching on characters. *)
(***************************************************************************)
Quote == "\""

Space == " "

\* three backticks, the code fence of Markdown
Fence == "fence"

Digits == <<"0", "1", "2", "3", "4", "5", "6", "7", "8", "9">>

IsDigit(u) == \E i \in 1..Len(Digits) : Digits[i] = u

DigitValue(u) == (CHOOSE i \in 1..Len(Digits) : Digits[i] = u) - 1

\* values of JavaScript: the type, then the value
JUndefined == <<"undefined", <<>>>>

JNull == <<"null", <<>>>>

JNum(n) == <<"number", n>>

JStr(s) == <<"string", s>>

JArr(a) == <<"array", a>>

\* an object: its properties [k, v] in the order of their creation
JObj(m) == <<"object", m>>

TypeOf(x) == x[1]

ValueOf(x) == x[2]

\* the concatenation of the sequences of a sequence
RECURSIVE Flatten(_)
Flatten(seqs) ==
  IF seqs = <<>> THEN <<>>
  ELSE IF Len(seqs) = 1 THEN seqs[1]
  ELSE Flatten(SubSeq(seqs, 1, Len(seqs) \div 2))
         \o Flatten(SubSeq(seqs, Len(seqs) \div 2 + 1, Len(seqs)))

\* textResponse.replace(/<fence>json|<fence>/g, ''): a fence goes, and the
\* word json behind a fence goes with it
stripFences(text) ==
  Flatten([i \in 1..Len(text) |->
             IF text[i] = Fence \/ (text[i] = "json" /\ i > 1 /\ text[i - 1] = Fence)
             THEN <<>>
             ELSE <<text[i]>>])

\* String.prototype.trim
RECURSIVE trim(_)
trim(text) ==
  IF text = <<>> THEN <<>>
  ELSE IF text[1] = Space THEN trim(Tail(text))
  ELSE IF text[Len(text)] = Space THEN trim(SubSeq(text, 1, Len(text) - 1))
  ELSE text

\* the first position from i on that holds no space
RECURSIVE SkipSpaces(_, _)
SkipSpaces(text, i) ==
  IF i <= Len(text) /\ text[i] = Space THEN SkipSpaces(text, i + 1) ELSE i

\* /"source_indices"\s*:\s*(?=[,}\]])/ at position i of text: the length of
\* the match, 0 when there is none
MatchLen(text, i) ==
  IF /\ i + 2 <= Len(text)
     /\ text[i] = Quote /\ text[i + 1] = "source_indices" /\ text[i + 2] = Quote
  THEN LET c == SkipSpaces(text, i + 3)
       IN  IF c <= Len(text) /\ text[c] = ":"
           THEN LET d == SkipSpaces(text, c + 1)
                IN  IF d <= Len(text) /\ text[d] \in {",", "}", "]"} THEN d - i ELSE 0
           ELSE 0
  ELSE 0

\* the replacement '"source_indices": []'
EmptyIndices == <<Quote, "source_indices", Quote, ":", Space, "[", "]">>

\* the mutation of fixSourceIndices that leaves the text alone
fixNothing(text) == text

\* cleanJson.replace(/"source_indices"\s*:\s*(?=[,}\]])/g, '"source_indices": []')
\* two matches never overlap: behind its key a match holds spaces and a colon
fixSourceIndices(text) ==
  LET starts == {i \in 1..Len(text) : MatchLen(text, i) > 0}
  IN  Flatten([i \in 1..Len(text) |->
                 IF i \in starts THEN EmptyIndices
                 ELSE IF \E j \in starts : j < i /\ i < j + MatchLen(text, j) THEN <<>>
                 ELSE <<text[i]>>])

\* JSON.parse, by recursive descent.  A step returns the value and the position
\* behind it, or fails
ParseFail == [ok |-> FALSE, v |-> JUndefined, at |-> 0]

ParseOk(value, at) == [ok |-> TRUE, v |-> value, at |-> at]

\* the closing quote of the string literal whose content starts at i, 0 if none
RECURSIVE ClosingQuote(_, _)
ClosingQuote(text, i) ==
  IF i > Len(text) THEN 0
  ELSE IF text[i] = Quote THEN i
  ELSE ClosingQuote(text, i + 1)

\* the first position from i on that holds no digit
RECURSIVE NumberEnd(_, _)
NumberEnd(text, i) ==
  IF i <= Len(text) /\ IsDigit(text[i]) THEN NumberEnd(text, i + 1) ELSE i

RECURSIVE Decimal(_)
Decimal(ds) ==
  IF ds = <<>> THEN 0
  ELSE 10 * Decimal(SubSeq(ds, 1, Len(ds) - 1)) + DigitValue(ds[Len(ds)])

\* obj[key] = value: a known key keeps its place
Put(m, key, value) ==
  IF \E i \in 1..Len(m) : m[i].k = key
  THEN [i \in 1..Len(m) |-> IF m[i].k = key THEN [k |-> key, v |-> value] ELSE m[i]]
  ELSE Append(m, [k |-> key, v |-> value])

RECURSIVE ParseValue(_, _)
RECURSIVE ParseElements(_, _, _)
RECURSIVE ParseMembers(_, _, _)

ParseValue(text, from) ==
  LET i == SkipSpaces(text, from)
  IN  IF i > Len(text) THEN ParseFail
      ELSE IF text[i] = "null" THEN ParseOk(JNull, i + 1)
      ELSE IF IsDigit(text[i])
      THEN LET e == NumberEnd(text, i)
           IN  IF text[i] = "0" /\ e > i + 1 THEN ParseFail
               ELSE ParseOk(JNum(Decimal(SubSeq(text, i, e - 1))), e)
      ELSE IF text[i] = Quote
      THEN LET c == ClosingQuote(text, i + 1)
           IN  IF c = 0 THEN ParseFail
               ELSE ParseOk(JStr(SubSeq(text, i + 1, c - 1)), c + 1)
      ELSE IF text[i] = "["
      THEN LET j == SkipSpaces(text, i + 1)
           IN  IF j <= Len(text) /\ text[j] = "]" THEN ParseOk(JArr(<<>>), j + 1)
               ELSE ParseElements(text, i + 1, <<>>)
      ELSE IF text[i] = "{"
      THEN LET j == SkipSpaces(text, i + 1)
           IN  IF j <= Len(text) /\ text[j] = "}" THEN ParseOk(JObj(<<>>), j + 1)
               ELSE ParseMembers(text, i + 1, <<>>)
      ELSE ParseFail

\* a value, then a comma and more elements, or the closing bracket
ParseElements(text, from, acc) ==
  LET r == ParseValue(text, from)
  IN  IF ~r.ok THEN ParseFail
      ELSE LET j == SkipSpaces(text, r.at)
           IN  IF j > Len(text) THEN ParseFail
               ELSE IF text[j] = "," THEN ParseElements(text, j + 1, Append(acc, r.v))
               ELSE IF text[j] = "]" THEN ParseOk(JArr(Append(acc, r.v)), j + 1)
               ELSE ParseFail

\* a key, a colon, a value, then a comma and more members, or the closing brace
ParseMembers(text, from, acc) ==
  LET i == SkipSpaces(text, from)
  IN  IF i > Len(text) \/ text[i] # Quote THEN ParseFail
      ELSE LET c == ClosingQuote(text, i + 1)
           IN  IF c = 0 THEN ParseFail
               ELSE LET k == SkipSpaces(text, c + 1)
                    IN  IF k > Len(text) \/ text[k] # ":" THEN ParseFail
                        ELSE LET r == ParseValue(text, k + 1)
                             IN  IF ~r.ok THEN ParseFail
                                 ELSE LET j == SkipSpaces(text, r.at)
                                          m == Put(acc, SubSeq(text, i + 1, c - 1), r.v)
                                      IN  IF j > Len(text) THEN ParseFail
                                          ELSE IF text[j] = "," THEN ParseMembers(text, j + 1, m)
                                          ELSE IF text[j] = "}" THEN ParseOk(JObj(m), j + 1)
                                          ELSE ParseFail

\* JSON.parse(text): ok is false when it throws a SyntaxError
JSONparse(text) ==
  LET r == ParseValue(text, 1)
  IN  IF r.ok /\ SkipSpaces(text, r.at) > Len(text)
      THEN [ok |-> TRUE, v |-> r.v]
      ELSE [ok |-> FALSE, v |-> JUndefined]

(***************************************************************************)
(* services/gemini.ts: from the parsed value to the items                  *)
(***************************************************************************)
\* !!x
ToBoolean(x) ==
  CASE TypeOf(x) \in {"undefined", "null"} -> FALSE
    [] TypeOf(x) = "number" -> ValueOf(x) # 0
    [] TypeOf(x) = "string" -> ValueOf(x) # <<>>
    [] OTHER -> TRUE

\* x.key throws a TypeError on null and undefined
Readable(x) == TypeOf(x) \notin {"undefined", "null"}

\* x.key for a readable x and a key that no prototype defines
Get(x, key) ==
  IF TypeOf(x) = "object" /\ \E i \in 1..Len(ValueOf(x)) : ValueOf(x)[i].k = <<key>>
  THEN ValueOf(x)[CHOOSE i \in 1..Len(ValueOf(x)) : ValueOf(x)[i].k = <<key>>].v
  ELSE JUndefined

\* a || b
Or(a, b) == IF ToBoolean(a) THEN a ELSE b

\* the string a number is read from: <<n>> for the number, <<>> for NaN
StringToNumber(s) ==
  LET t == trim(s)
  IN  IF \A i \in 1..Len(t) : IsDigit(t[i]) THEN <<Decimal(t)>> ELSE <<>>

\* ToNumber(x), for the subtraction in sources[i - 1]
RECURSIVE ToNumber(_)
ToNumber(x) ==
  CASE TypeOf(x) = "number" -> <<ValueOf(x)>>
    [] TypeOf(x) = "null" -> <<0>>
    [] TypeOf(x) = "string" -> StringToNumber(ValueOf(x))
    [] TypeOf(x) = "array" ->
         IF ValueOf(x) = <<>> THEN <<0>>
         ELSE IF Len(ValueOf(x)) = 1 /\ TypeOf(ValueOf(x)[1]) # "undefined"
         THEN ToNumber(ValueOf(x)[1])
         ELSE <<>>
    [] OTHER -> <<>>

\* the mutation of sourceAt that reads the index from 0
sourceAtFromZero(i, sources) ==
  LET n == ToNumber(i)
  IN  IF n # <<>> /\ n[1] \in 0..(Len(sources) - 1)
      THEN <<sources[n[1] + 1]>>
      ELSE <<>>

\* sources[i - 1]: <<>> when it is undefined
sourceAt(i, sources) ==
  LET n == ToNumber(i)
  IN  IF n # <<>> /\ n[1] - 1 \in 0..(Len(sources) - 1)
      THEN <<sources[n[1]]>>
      ELSE <<>>

\* indices.map(i => sources[i - 1]).filter(s => !!s)
itemSources(indices, sources) ==
  LET mapped == [k \in 1..Len(indices) |-> sourceAt(indices[k], sources)]
      kept == SelectSeq(mapped, LAMBDA s : s # <<>>)
  IN  [k \in 1..Len(kept) |-> kept[k][1]]

\* the literals of the code, in the order title, region, entity, amount
DefaultTitle == JStr(<<"untitled">>)

DefaultRegion == JStr(<<"nationwide">>)

DefaultEntity == JStr(<<"unknown-subject">>)

DefaultAmount == JStr(<<"undisclosed">>)

DefaultSummary == JStr(<<>>)

DefaultSourceTitle == "unknown-source"

DefaultUri == "#"

\* Array.isArray(item.source_indices) ? item.source_indices : []
indicesOf(item) ==
  IF TypeOf(Get(item, "source_indices")) = "array"
  THEN ValueOf(Get(item, "source_indices"))
  ELSE <<>>

\* the mutation of mapItem that copies the fields as they are
mapItemNoDefaults(item, category, dateStr, sources) ==
  [category |-> category, date |-> dateStr,
   title |-> Get(item, "title"),
   region |-> Get(item, "region"),
   entity |-> Get(item, "entity"),
   amount |-> Get(item, "amount"),
   summary |-> Get(item, "summary"),
   sourceIndices |-> indicesOf(item),
   sources |-> itemSources(indicesOf(item), sources)]

\* the mutation of mapItem that keeps only the indices that resolve
mapItemFiltered(item, category, dateStr, sources) ==
  [category |-> category, date |-> dateStr,
   title |-> Or(Get(item, "title"), DefaultTitle),
   region |-> Or(Get(item, "region"), DefaultRegion),
   entity |-> Or(Get(item, "entity"), DefaultEntity),
   amount |-> Or(Get(item, "amount"), DefaultAmount),
   summary |-> Or(Get(item, "summary"), DefaultSummary),
   sourceIndices |-> SelectSeq(indicesOf(item), LAMBDA i : sourceAt(i, sources) # <<>>),
   sources |-> itemSources(indicesOf(item), sources)]

\* the callback of rawItems.map: the MarketItem of a raw item the code can read
mapItem(item, category, dateStr, sources) ==
  [category |-> category, date |-> dateStr,
   title |-> Or(Get(item, "title"), DefaultTitle),
   region |-> Or(Get(item, "region"), DefaultRegion),
   entity |-> Or(Get(item, "entity"), DefaultEntity),
   amount |-> Or(Get(item, "amount"), DefaultAmount),
   summary |-> Or(Get(item, "summary"), DefaultSummary),
   sourceIndices |-> indicesOf(item),
   sources |-> itemSources(indicesOf(item), sources)]

\* the mutation of rawItemsOf that takes a bare array only
rawItemsOfArrayOnly(parsedData) ==
  IF TypeOf(parsedData) = "array" THEN ValueOf(parsedData) ELSE <<>>

\* Array.isArray(parsedData) ? parsedData
\*   : parsedData && Array.isArray(parsedData.items) ? parsedData.items : []
rawItemsOf(parsedData) ==
  IF TypeOf(parsedData) = "array" THEN ValueOf(parsedData)
  ELSE IF ToBoolean(parsedData) /\ TypeOf(Get(parsedData, "items")) = "array"
  THEN ValueOf(Get(parsedData, "items"))
  ELSE <<>>

\* chunks.forEach(chunk => chunk.web && sources.push(...)); chunks is <<>> when
\* the response has no grounding metadata, <<list>> otherwise; a chunk is
\* [web |-> <<>>] or [web |-> <<[title, uri]>>], title and uri '' when absent
groundingSources(chunks) ==
  IF chunks = <<>> THEN <<>>
  ELSE LET webs == SelectSeq(chunks[1], LAMBDA c : c.web # <<>>)
       IN  [k \in 1..Len(webs) |->
              [title |-> IF webs[k].web[1].title # "" THEN webs[k].web[1].title
                         ELSE DefaultSourceTitle,
               uri |-> IF webs[k].web[1].uri # "" THEN webs[k].web[1].uri
                       ELSE DefaultUri]]

\* response.text || '{ "items": [] }'; text is <<>> when the response has none
DefaultText == <<"{", Space, Quote, "items", Quote, ":", Space, "[", "]", Space, "}">>

textResponse(text) == IF text # <<>> /\ text[1] # <<>> THEN text[1] ELSE DefaultText

\* the three lines that make cleanJson
cleanJson(text) == fixSourceIndices(trim(stripFences(text)))

(***************************************************************************)
(* The provider: what ai.models.generateContent can resolve with           *)
(***************************************************************************)
Prop(key, value) == [k |-> <<key>>, v |-> value]

RECURSIVE NumberText(_)
NumberText(n) ==
  IF n < 10 THEN <<Digits[n + 1]>>
  ELSE NumberText(n \div 10) \o <<Digits[(n % 10) + 1]>>

\* JSON.stringify, the text the provider means to send for a value
RECURSIVE stringify(_)
RECURSIVE JoinElements(_)
RECURSIVE JoinMembers(_)

stringify(x) ==
  CASE TypeOf(x) = "null" -> <<"null">>
    [] TypeOf(x) = "number" -> NumberText(ValueOf(x))
    [] TypeOf(x) = "string" -> <<Quote>> \o ValueOf(x) \o <<Quote>>
    [] TypeOf(x) = "array" -> <<"[">> \o JoinElements(ValueOf(x)) \o <<"]">>
    [] TypeOf(x) = "object" -> <<"{">> \o JoinMembers(ValueOf(x)) \o <<"}">>

JoinElements(a) ==
  IF a = <<>> THEN <<>>
  ELSE IF Len(a) = 1 THEN stringify(a[1])
  ELSE stringify(a[1]) \o <<",">> \o JoinElements(Tail(a))

JoinMembers(m) ==
  IF m = <<>> THEN <<>>
  ELSE LET head == <<Quote>> \o m[1].k \o <<Quote, ":">> \o stringify(m[1].v)
       IN  IF Len(m) = 1 THEN head ELSE head \o <<",">> \o JoinMembers(Tail(m))

\* the known failure of the provider: it leaves out the empty array behind a
\* "source_indices" key (all of it, then gap is what it writes instead), or
\* only its opening bracket
Omit(text, gap, all) ==
  LET empty(i) == /\ i >= 5 /\ i + 1 <= Len(text)
                  /\ SubSeq(text, i - 4, i + 1) = <<Quote, "source_indices", Quote, ":", "[", "]">>
  IN  Flatten([i \in 1..Len(text) |->
                 IF empty(i) THEN gap
                 ELSE IF empty(i - 1) /\ all THEN <<>>
                 ELSE <<text[i]>>])

Modes ==
  {"json", "padded", "fenced", "fencedJson", "prose", "truncated",
   "omitted", "omittedSpace", "omittedOpen"}

ProviderText(x, mode) ==
  CASE mode = "json" -> stringify(x)
    [] mode = "padded" -> <<Space>> \o stringify(x) \o <<Space, Space>>
    [] mode = "fenced" -> <<Fence, Space>> \o stringify(x) \o <<Space, Fence>>
    [] mode = "fencedJson" -> <<Fence, "json", Space>> \o stringify(x) \o <<Space, Fence, Space>>
    [] mode = "prose" -> <<"A", ":", Space>> \o stringify(x)
    [] mode = "truncated" -> SubSeq(stringify(x), 1, Len(stringify(x)) - 1)
    [] mode = "omitted" -> Omit(stringify(x), <<>>, TRUE)
    [] mode = "omittedSpace" -> Omit(stringify(x), <<Space>>, TRUE)
    [] mode = "omittedOpen" -> Omit(stringify(x), <<>>, FALSE)

\* the modes that make a text of their own for the value
ModesOf(x) ==
  {"json"} \cup {m \in Modes : ProviderText(x, m) # stringify(x)}

MaxIndices == 2      \* elements of one source_indices array
MaxChunks == 2       \* grounding chunks of one response

IndexNumbers == {JNum(n) : n \in 0..(MaxChunks + 1)}

IndexLists ==
  UNION {[1..n -> IndexNumbers] : n \in 0..MaxIndices}
    \cup {<<JNull>>, <<JStr(<<"1">>)>>, <<JStr(<<"A">>), JNum(1)>>}

FieldNames == {"title", "region", "entity", "amount", "summary"}

FieldValues ==
  {JStr(<<"A">>), JStr(<<>>), JNum(0), JNum(5), JNull,
   JStr(<<Fence, "A", Fence>>), JStr(<<"source_indices">>)}

OneFieldItems == {JObj(<<Prop(f, x)>>) : f \in FieldNames, x \in FieldValues}

IndexItems ==
  {JObj(<<Prop("source_indices", JArr(l))>>) : l \in IndexLists}
    \cup {JObj(<<Prop("source_indices", x)>>) : x \in {JNull, JNum(1), JStr(<<"1">>)}}

CoreItems ==
  { JObj(<<>>),
    JObj(<<Prop("title", JStr(<<"A">>)), Prop("source_indices", JArr(<<>>))>>),
    JObj(<<Prop("source_indices", JArr(<<>>)), Prop("summary", JStr(<<"A">>))>>),
    JObj(<<Prop("title", JStr(<<"A">>)),
           Prop("summary", JStr(<<"A", Space, "[", "1", "]">>)),
           Prop("source_indices", JArr(<<JNum(1)>>))>>),
    JObj(<<Prop("title", JStr(<<"A">>)), Prop("region", JStr(<<"B">>)),
           Prop("entity", JStr(<<"A", "B">>)), Prop("amount", JStr(<<"5">>)),
           Prop("summary", JStr(<<"B">>)), Prop("source_indices", JArr(<<JNum(2), JNum(1)>>))>>),
    JObj(<<Prop("source_indices", JArr(<<JNum(3), JNum(1), JNum(1), JNum(0), JNum(2)>>))>>) }

OtherItems == {JNull, JNum(1), JStr(<<"A">>), JArr(<<>>)}

\* summaries with markers: one that the item's own indices do not hold, one
\* below and one above the sources, two that meet, numbers of two digits, and
\* brackets that are no marker
CitedSummaries ==
  { <<"A", "[", "2", "]">>,
    <<"[", "0", "]", "A", "[", "3", "]">>,
    <<"[", "1", "]", "[", "2", "]", Space, "[", "1", "]">>,
    <<"[", "1", "2", "]", "[", "0", "1", "]">>,
    <<"[", "A", "]", "[", "]", "[", "1">> }

CitedItems ==
  {JObj(<<Prop("summary", JStr(t)), Prop("source_indices", JArr(<<JNum(1)>>))>>) :
     t \in CitedSummaries}

ItemLists ==
  {<<>>}
    \cup {<<x>> : x \in OneFieldItems \cup IndexItems \cup CoreItems \cup OtherItems
                         \cup CitedItems}
    \cup {<<p[1], p[2]>> : p \in (CoreItems \cup {JNull}) \X (CoreItems \cup {JNull})}

OddValues ==
  {JNull, JNum(0), JNum(1), JStr(<<"A">>), JObj(<<>>),
   JObj(<<Prop("items", JNull)>>), JObj(<<Prop("items", JObj(<<>>))>>),
   JObj(<<Prop("title", JStr(<<"A">>))>>)}

Values ==
  {JArr(l) : l \in ItemLists}
    \cup {JObj(<<Prop("items", JArr(l))>>) : l \in ItemLists}
    \cup OddValues

WebA == [web |-> <<[title |-> "A", uri |-> "a"]>>]

WebB == [web |-> <<[title |-> "B", uri |-> "b"]>>]

ChunkKinds == {[web |-> <<>>], WebA, WebB, [web |-> <<[title |-> "", uri |-> ""]>>]}

ChunkLists == {<<>>} \cup {<<l>> : l \in UNION {[1..n -> ChunkKinds] : n \in 0..MaxChunks}}

Responses ==
  {[text |-> <<ProviderText(r[1], r[2])>>, chunks |-> <<<<WebA, WebB>>>>,
    meant |-> r[1], mode |-> r[2]] :
     r \in {p \in Values \X Modes : p[2] \in ModesOf(p[1])}}
    \cup {[text |-> <<stringify(JObj(<<Prop("items", JArr(<<r[1]>>))>>))>>, chunks |-> r[2],
           meant |-> JObj(<<Prop("items", JArr(<<r[1]>>))>>), mode |-> "json"] :
            r \in CoreItems \X ChunkLists}
    \cup {[text |-> r[1], chunks |-> r[2],
           meant |-> JObj(<<Prop("items", JArr(<<>>))>>), mode |-> "none"] :
            r \in {<<>>, <<<<>>>>} \X {<<>>, <<<<WebA>>>>}}

Requests == {<<TENDER, D10>>, <<DEMAND, D09>>}

(***************************************************************************)
(* A direct caller of the store module (the search page, a test)           *)
(***************************************************************************)
Str(a) == <<a>>

Pool ==
  { [category |-> TRADING, date |-> D08, title |-> <<"A", "b">>,
     region |-> <<"a", "b">>, entity |-> <<"B">>],
    [category |-> TENDER, date |-> D10, title |-> <<"a">>,
     region |-> <<"b">>, entity |-> <<"A">>],
    [category |-> TENDER, date |-> D09, title |-> <<"b">>,
     region |-> <<"a", "b">>, entity |-> <<"b">>],
    [category |-> DEMAND, date |-> D10, title |-> <<"B">>,
     region |-> <<"b", "a">>, entity |-> <<"a">>] }

Batches == UNION {[1..n -> Pool] : n \in 1..MaxBatch}

QueryParams ==
  [startDate : {<<>>, <<<<>>>>, <<D09>>, <<D10>>},
   endDate : {<<>>, <<D08>>, <<D09>>},
   category : {<<>>, <<TENDER>>},
   region : {<<>>, <<<<>>>>, <<Str("b")>>, <<<<"a", "b">>>>},
   entityKeyword : {<<>>, <<Str("a")>>, <<Str("B")>>}]

ClientId == 0

ClientIdle == [pc |-> "idle"]

\* the caller makes one call at a time and takes its result before the next
ClientReady == client.pc \in {"idle", "saved", "failed"}

\* saveDailyData(items) up to the creation of the transaction
ClientSave(batch) ==
  /\ ClientReady
  /\ Len(store) + Len(batch) <= MaxRows
  /\ TxCreate(ClientId, batch)
  /\ client' = [pc |-> "saving", items |-> batch, base |-> store, added |-> 0]
  /\ UNCHANGED <<store, nextKey, pending>>
  /\ UNCHANGED appVars

ClientAdd ==
  /\ client.pc = "saving"
  /\ TxAdd
  /\ UNCHANGED client
  /\ UNCHANGED appVars

\* a store.add request fails: saveDailyData rejects
ClientAddFail ==
  /\ client.pc = "saving"
  /\ Len(pending) < Len(TxHead.items)
  /\ TxAbort
  /\ client' = [client EXCEPT !.pc = "failed", !.added = Len(pending)]
  /\ UNCHANGED appVars

\* tx.done resolves: saveDailyData resolves
ClientCommit ==
  /\ client.pc = "saving"
  /\ TxAllAdded
  /\ TxCommit
  /\ client' = [client EXCEPT !.pc = "saved", !.added = Len(pending)]
  /\ UNCHANGED appVars

\* tx.done rejects
ClientCommitFail ==
  /\ client.pc = "saving"
  /\ TxAllAdded
  /\ TxAbort
  /\ client' = [client EXCEPT !.pc = "failed", !.added = Len(pending)]
  /\ UNCHANGED appVars

ClientQuery(params) ==
  /\ ClientReady
  /\ client' = [pc |-> "queried", params |-> params,
                rows |-> queryMarketData(store, params)]
  /\ UNCHANGED <<store, nextKey, txq, pending>>
  /\ UNCHANGED appVars

ClientMissing(date) ==
  /\ ClientReady
  /\ client' = [pc |-> "checked", date |-> date,
                missing |-> getMissingCategoriesForDate(store, date)]
  /\ UNCHANGED <<store, nextKey, txq, pending>>
  /\ UNCHANGED appVars

\* the caller has read what the query or the check returned
ClientReturn ==
  /\ client.pc \in {"queried", "checked"}
  /\ client' = ClientIdle
  /\ UNCHANGED <<store, nextKey, txq, pending>>
  /\ UNCHANGED appVars

(***************************************************************************)
(* components/IntelligenceCard: the summary with its citations             *)
(***************************************************************************)
\* /\[\d+\]/ at position i: the length of the match, 0 when there is none
MarkerLen(text, i) ==
  IF /\ i + 2 <= Len(text)
     /\ text[i] = "["
     /\ NumberEnd(text, i + 1) > i + 1
     /\ NumberEnd(text, i + 1) <= Len(text)
     /\ text[NumberEnd(text, i + 1)] = "]"
  THEN NumberEnd(text, i + 1) - i + 1
  ELSE 0

\* text.split(/(\[\d+\])/g) from position from on: the pieces between the
\* markers and the markers, a piece of no length where two markers meet and at
\* a marker that begins or ends the text
RECURSIVE split(_, _)
split(text, from) ==
  LET starts == {i \in from..Len(text) : MarkerLen(text, i) > 0}
  IN  IF starts = {} THEN <<SubSeq(text, from, Len(text))>>
      ELSE LET m == CHOOSE i \in starts : \A j \in starts : i <= j
           IN  <<SubSeq(text, from, m - 1), SubSeq(text, m, m + MarkerLen(text, m) - 1)>>
                 \o split(text, m + MarkerLen(text, m))

\* parseInt of a string of digits
parseInt(ds) == Decimal(ds)

\* the mutation of citationIndex that takes the number as it stands
citationIndexFromZero(ds) == parseInt(ds)

\* parseInt(match[1]) - 1
citationIndex(ds) == parseInt(ds) - 1

\* one element of parts.map: a link to the source when part.match finds a
\* marker and sources[index] is there, a span of the text otherwise
renderPart(part, sources) ==
  LET starts == {i \in 1..Len(part) : MarkerLen(part, i) > 0}
      m == CHOOSE i \in starts : \A j \in starts : i <= j
      index == citationIndex(SubSeq(part, m + 1, m + MarkerLen(part, m) - 2))
  IN  IF starts # {} /\ index \in 0..(Len(sources) - 1)
      THEN [text |-> part, link |-> <<index>>, title |-> <<sources[index + 1].title>>]
      ELSE [text |-> part, link |-> <<>>, title |-> <<>>]

RenderError == "text.split is not a function"

\* TextWithCitations({text, sources}): nothing for a text that is falsy, the
\* span of the parts for a string, and a TypeError for any other value, which
\* has no split
TextWithCitations(text, sources) ==
  IF ~ToBoolean(text) THEN [kind |-> "null"]
  ELSE IF TypeOf(text) # "string" THEN [kind |-> "throws", message |-> RenderError]
  ELSE [kind |-> "span",
        parts |-> [j \in 1..Len(split(ValueOf(text), 1)) |->
                     renderPart(split(ValueOf(text), 1)[j], sources)]]

(***************************************************************************)
(* A direct caller of fetchMarketIntelligence, which saves what it gets as *)
(* loadCategoryData does; the function runs one statement group a step     *)
(***************************************************************************)
KeyError == "API Key is missing"

ProviderError == "ProviderError"

TypeError == "Cannot read properties of null"

\* fetchMarketIntelligence(category, dateStr) up to the await of generateContent
ClientFetch(category, dateStr, apiKey) ==
  /\ client.pc = "idle"
  /\ client' = IF apiKey
               THEN [pc |-> "requested", category |-> category, date |-> dateStr]
               ELSE [pc |-> "thrown", message |-> KeyError]
  /\ UNCHANGED <<store, nextKey, txq, pending>>
  /\ UNCHANGED appVars

\* generateContent resolves
ClientRespond(response) ==
  /\ client.pc = "requested"
  /\ client' = [pc |-> "responded", category |-> client.category, date |-> client.date,
                response |-> response, text |-> textResponse(response.text)]
  /\ UNCHANGED <<store, nextKey, txq, pending>>
  /\ UNCHANGED appVars

\* generateContent rejects: the catch throws an Error with its message
ClientRespondFail ==
  /\ client.pc = "requested"
  /\ client' = [pc |-> "thrown", message |-> ProviderError]
  /\ UNCHANGED <<store, nextKey, txq, pending>>
  /\ UNCHANGED appVars

\* the fences are stripped, the text trimmed, the missing arrays supplied
ClientClean ==
  /\ client.pc = "responded"
  /\ client' = [pc |-> "cleaned", cleanJson |-> cleanJson(client.text)] @@ client
  /\ UNCHANGED <<store, nextKey, txq, pending>>
  /\ UNCHANGED appVars

\* JSON.parse, with { items: [] } in the catch
ClientParse ==
  /\ client.pc = "cleaned"
  /\ LET r == JSONparse(client.cleanJson)
     IN  client' = [pc |-> "parsed", fallback |-> ~r.ok,
                    parsedData |-> IF r.ok THEN r.v
                                   ELSE JObj(<<Prop("items", JArr(<<>>))>>)] @@ client
  /\ UNCHANGED <<store, nextKey, txq, pending>>
  /\ UNCHANGED appVars

\* rawItems and sources
ClientExtract ==
  /\ client.pc = "parsed"
  /\ client' = [pc |-> "extracted", rawItems |-> rawItemsOf(client.parsedData),
                sources |-> groundingSources(client.response.chunks)] @@ client
  /\ UNCHANGED <<store, nextKey, txq, pending>>
  /\ UNCHANGED appVars

\* rawItems.map(...) and the return; a raw item that cannot be read throws into
\* the catch, which throws an Error with the message
ClientMap ==
  /\ client.pc = "extracted"
  /\ client' =
       IF \A k \in 1..Len(client.rawItems) : Readable(client.rawItems[k])
       THEN [pc |-> "returned",
             items |-> [k \in 1..Len(client.rawItems) |->
                          mapItem(client.rawItems[k], client.category, client.date,
                                  client.sources)]] @@ client
       ELSE [pc |-> "thrown", message |-> TypeError] @@ client
  /\ UNCHANGED <<store, nextKey, txq, pending>>
  /\ UNCHANGED appVars

\* if (result.items.length > 0) await saveDailyData(result.items)
ClientSaveFetched ==
  /\ client.pc = "returned"
  /\ Len(client.items) > 0
  /\ TxCreate(ClientId, client.items)
  /\ client' = [pc |-> "saving", items |-> client.items, base |-> store, added |-> 0]
  /\ UNCHANGED <<store, nextKey, pending>>
  /\ UNCHANGED appVars

\* the card shows the result: data.items.map with a TextWithCitations for each
\* summary, against data.sources
ClientRender ==
  /\ client.pc = "returned"
  /\ LET cited == [k \in 1..Len(client.items) |->
                     TextWithCitations(client.items[k].summary, client.sources)]
     IN  client' = IF \E k \in 1..Len(cited) : cited[k].kind = "throws"
                   THEN [pc |-> "crashed", message |-> RenderError] @@ client
                   ELSE [pc |-> "rendered", cited |-> cited] @@ client
  /\ UNCHANGED <<store, nextKey, txq, pending>>
  /\ UNCHANGED appVars

(***************************************************************************)
(* App                                                                     *)
(***************************************************************************)
InitStatus == [c \in CategorySet |-> [loading |-> FALSE, error |-> null]]

InitData == [c \in CategorySet |-> null]

FetchError == "FetchError"
StoreError == "StoreError"

\* one slot for each turn of the backfill loop, then the slots of the other calls
SyncSlots == 1..Len(Category)

UserSlots == (Len(Category) + 1)..(Len(Category) + 1 + MaxClicks)

Idle == [pc |-> "idle"]

InFlight(t) == calls[t].pc \in {"fetching", "saving"}

\* the k-th item fetchMarketIntelligence returns for (category, date)
Item(category, date, k) ==
  [category |-> category, date |-> date,
   title |-> IF k % 2 = 1 THEN <<"A">> ELSE <<"b">>,
   region |-> <<"a">>, entity |-> <<"B">>]

Items(category, date, n) == [k \in 1..n |-> Item(category, date, k)]

\* loadCategoryData tells an empty result from one with items, nothing more;
\* a result with items has two, so that a batch is more than one row
ItemCounts == {0, 2}

\* the status the closure of the first render holds: runAutoSync keeps calling
\* the loadCategoryData of that render
mountStatus == InitStatus

\* loadCategoryData up to its first await, as the status and the calls it
\* leaves; seen is the status its closure holds
loadStatusNoFlag(st, category, silent, seen) == st

loadStatus(st, category, silent, seen) ==
  IF seen[category].loading \/ silent THEN st
  ELSE [st EXCEPT ![category] = [loading |-> TRUE, error |-> null]]

loadCallsNoGuard(cl, t, category, date, silent, seen) ==
  [cl EXCEPT ![t] = [pc |-> "fetching", category |-> category, date |-> date,
                     silent |-> silent, items |-> <<>>]]

loadCalls(cl, t, category, date, silent, seen) ==
  IF seen[category].loading THEN cl
  ELSE [cl EXCEPT ![t] = [pc |-> "fetching", category |-> category, date |-> date,
                          silent |-> silent, items |-> <<>>]]

FreeUserSlots == {t \in UserSlots : calls[t].pc = "idle"}

NextUserSlot == CHOOSE t \in FreeUserSlots : \A u \in FreeUserSlots : t <= u

\* loadCategoryData(category, date) from a handler or from the tab-change
\* effect: the closure of the current render
UserLoad(category, date) ==
  /\ FreeUserSlots # {}
  /\ status' = loadStatus(status, category, FALSE, status)
  /\ calls' = loadCalls(calls, NextUserSlot, category, date, FALSE, status)

\* the effect on [activeCategory, selectedDate, view], with the values of the new render
TabEffect(v, c, d, dat) ==
  IF v = "dashboard" /\ dat[c] = null /\ ~status[c].loading
  THEN UserLoad(c, d)
  ELSE UNCHANGED <<status, calls>>

syncVars == <<isSyncing, syncProgress, sync, syncLog>>

storeVars == <<store, nextKey, txq, pending>>

\* first commit: both effects run
Mount ==
  /\ sync.pc = "unmounted"
  /\ sync' = [sync EXCEPT !.pc = "checking"]
  /\ TabEffect(view, activeCategory, selectedDate, data)
  /\ UNCHANGED <<view, activeCategory, selectedDate, data, isSyncing,
                 syncProgress, syncLog, clicks, client>>
  /\ UNCHANGED storeVars

\* getMissingCategoriesForDate(today) resolves; the first turn of the loop runs
\* up to its await
SyncCheckedGen(missing, upTo) ==
  /\ sync.pc = "checking"
  /\ IF Len(missing) > 0
     THEN /\ isSyncing' = TRUE
          /\ syncProgress' = [current |-> missing[upTo], total |-> Len(missing),
                              finished |-> 0]
          /\ calls' = [t \in DOMAIN calls |->
                         IF t \in 1..upTo
                         THEN loadCalls(calls, t, missing[t], Today, TRUE, mountStatus)[t]
                         ELSE calls[t]]
          /\ status' = loadStatus(status, missing[1], TRUE, mountStatus)
          /\ syncLog' = SubSeq(missing, 1, upTo)
          /\ sync' = [pc |-> "awaiting", missing |-> missing, i |-> upTo, errors |-> 0,
                       seen |-> Len(store)]
     ELSE /\ sync' = [pc |-> "done", missing |-> missing, i |-> 0, errors |-> 0,
                       seen |-> Len(store)]
          /\ UNCHANGED <<isSyncing, syncProgress, syncLog, status, calls>>
  /\ UNCHANGED <<view, activeCategory, selectedDate, data, clicks, client>>
  /\ UNCHANGED storeVars

SyncCheckedAll ==
  SyncCheckedGen(getMissingCategoriesForDate(store, Today),
                 Len(getMissingCategoriesForDate(store, Today)))

SyncCheckedEvery == SyncCheckedGen(Category, 1)

SyncChecked == SyncCheckedGen(getMissingCategoriesForDate(store, Today), 1)

\* runAutoSync is suspended on the call of slot t
AwaitedBySync(t) == sync.pc = "awaiting" /\ t = sync.i

\* await loadCategoryData(...) returns, or throws into the catch; the progress
\* advances and the loop starts its next turn or ends.  st and cl are the status
\* and the calls as the settled call leaves them
runAutoSyncGen(ok, st, cl, catches, counts, step) ==
  LET finished == IF ok \/ counts THEN syncProgress.finished + 1
                  ELSE syncProgress.finished
      errors == IF ok THEN sync.errors ELSE sync.errors + 1
      next == sync.i + step
  IN  IF ~ok /\ ~catches
      THEN /\ sync' = [sync EXCEPT !.pc = "done"]
           /\ status' = st
           /\ calls' = cl
           /\ UNCHANGED <<isSyncing, syncProgress, syncLog>>
      ELSE IF sync.i < Len(sync.missing)
      THEN /\ syncProgress' = [current |-> sync.missing[next],
                               total |-> syncProgress.total, finished |-> finished]
           /\ status' = loadStatus(st, sync.missing[next], TRUE, mountStatus)
           /\ calls' = loadCalls(cl, sync.i + 1, sync.missing[next], Today, TRUE, mountStatus)
           /\ syncLog' = Append(syncLog, sync.missing[next])
           /\ sync' = [sync EXCEPT !.i = @ + 1, !.errors = errors]
           /\ UNCHANGED isSyncing
      ELSE /\ syncProgress' = [syncProgress EXCEPT !.finished = finished]
           /\ isSyncing' = FALSE
           /\ sync' = [sync EXCEPT !.pc = "done", !.errors = errors]
           /\ status' = st
           /\ calls' = cl
           /\ UNCHANGED syncLog

runAutoSyncNoCatch(ok, st, cl) == runAutoSyncGen(ok, st, cl, FALSE, TRUE, 1)

runAutoSyncNoCount(ok, st, cl) == runAutoSyncGen(ok, st, cl, TRUE, FALSE, 1)

runAutoSyncRepeat(ok, st, cl) == runAutoSyncGen(ok, st, cl, TRUE, TRUE, 0)

runAutoSync(ok, st, cl) == runAutoSyncGen(ok, st, cl, TRUE, TRUE, 1)

\* the end of loadCategoryData: the result is cached, or the error is shown and
\* rethrown; a call of the backfill pass then resumes runAutoSync.  shown is the
\* status a failed call leaves for its category
SettleGen(t, ok, result, message, shown) ==
  LET c == calls[t]
      st == IF ok
            THEN [status EXCEPT ![c.category] = [loading |-> FALSE, error |-> null]]
            ELSE [status EXCEPT ![c.category] = shown]
      cl == [calls EXCEPT ![t] = [pc |-> IF ok THEN "resolved" ELSE "rejected"]]
  IN  /\ data' = IF ok THEN [data EXCEPT ![c.category] = <<[items |-> result]>>] ELSE data
      /\ IF AwaitedBySync(t)
         THEN runAutoSync(ok, st, cl)
         ELSE /\ status' = st
              /\ calls' = cl
              /\ UNCHANGED syncVars

\* the mutation of Settle in which a failed call shows nothing
SettleNoError(t, ok, result, message) ==
  SettleGen(t, ok, result, message, status[calls[t].category])

\* the mutation of Settle in which a failed call of the backfill shows its error too
SettleLoud(t, ok, result, message) ==
  SettleGen(t, ok, result, message, [loading |-> FALSE, error |-> <<message>>])

\* the mutation of Settle in which a failed call shows its error and stays busy
SettleKeepsLoading(t, ok, result, message) ==
  SettleGen(t, ok, result, message,
            IF calls[t].silent THEN status[calls[t].category]
            ELSE [loading |-> TRUE, error |-> <<message>>])

\* the end of loadCategoryData: the result is cached, or the error is shown and
\* rethrown; a call of the backfill pass then resumes runAutoSync
Settle(t, ok, result, message) ==
  LET c == calls[t]
      st == IF ok
            THEN [status EXCEPT ![c.category] = [loading |-> FALSE, error |-> null]]
            ELSE IF c.silent THEN status
            ELSE [status EXCEPT ![c.category] = [loading |-> FALSE, error |-> <<message>>]]
      cl == [calls EXCEPT ![t] = [pc |-> IF ok THEN "resolved" ELSE "rejected"]]
  IN  /\ data' = IF ok THEN [data EXCEPT ![c.category] = <<[items |-> result]>>] ELSE data
      /\ IF AwaitedBySync(t)
         THEN runAutoSync(ok, st, cl)
         ELSE /\ status' = st
              /\ calls' = cl
              /\ UNCHANGED syncVars

\* the mutation of FetchOk whose items carry the category and the date the
\* page shows when the fetch resolves
FetchOkCurrent(t, n) ==
  /\ calls[t].pc = "fetching"
  /\ LET items == Items(activeCategory, selectedDate, n)
     IN  IF n > 0
         THEN /\ calls' = [calls EXCEPT ![t].pc = "saving", ![t].items = items]
              /\ TxCreate(t, items)
              /\ UNCHANGED <<data, status>>
              /\ UNCHANGED syncVars
         ELSE /\ Settle(t, TRUE, items, null)
              /\ UNCHANGED txq
  /\ UNCHANGED <<view, activeCategory, selectedDate, clicks, client, store, nextKey, pending>>

\* the mutation of FetchOk that opens a transaction for an empty result too
FetchOkSavesEmpty(t, n) ==
  /\ calls[t].pc = "fetching"
  /\ calls' = [calls EXCEPT ![t].pc = "saving",
                            ![t].items = Items(calls[t].category, calls[t].date, n)]
  /\ TxCreate(t, Items(calls[t].category, calls[t].date, n))
  /\ UNCHANGED <<data, status>>
  /\ UNCHANGED syncVars
  /\ UNCHANGED <<view, activeCategory, selectedDate, clicks, client, store, nextKey, pending>>

\* fetchMarketIntelligence resolves with n items; saveDailyData creates its
\* transaction when there are items
FetchOk(t, n) ==
  /\ calls[t].pc = "fetching"
  /\ LET items == Items(calls[t].category, calls[t].date, n)
     IN  IF n > 0
         THEN /\ calls' = [calls EXCEPT ![t].pc = "saving", ![t].items = items]
              /\ TxCreate(t, items)
              /\ UNCHANGED <<data, status>>
              /\ UNCHANGED syncVars
         ELSE /\ Settle(t, TRUE, items, null)
              /\ UNCHANGED txq
  /\ UNCHANGED <<view, activeCategory, selectedDate, clicks, client, store, nextKey, pending>>

\* fetchMarketIntelligence rejects (missing API key, provider error)
FetchFail(t) ==
  /\ calls[t].pc = "fetching"
  /\ Settle(t, FALSE, <<>>, FetchError)
  /\ UNCHANGED <<view, activeCategory, selectedDate, clicks, client>>
  /\ UNCHANGED storeVars

Saving(t) == calls[t].pc = "saving" /\ TxRunning /\ TxHead.owner = t

\* the transaction of saveDailyData runs its requests and commits.  It is
\* isolated: nothing outside observes its adds before the commit
SaveCommit(t) ==
  /\ Saving(t)
  /\ TxCommit
  /\ Settle(t, TRUE, calls[t].items, null)
  /\ UNCHANGED <<view, activeCategory, selectedDate, clicks, client>>

\* a request or the commit fails: saveDailyData rejects
SaveFail(t) ==
  /\ Saving(t)
  /\ TxAbort
  /\ Settle(t, FALSE, <<>>, StoreError)
  /\ UNCHANGED <<view, activeCategory, selectedDate, clicks, client>>

\* the page is up and the user acts once more
Click ==
  /\ sync.pc # "unmounted"
  /\ clicks < MaxClicks
  /\ clicks' = clicks + 1

\* the refresh button of the card, the retry button of the error panel
Refresh ==
  /\ Click
  /\ view = "dashboard"
  /\ UserLoad(activeCategory, selectedDate)
  /\ UNCHANGED <<view, activeCategory, selectedDate, data, client>>
  /\ UNCHANGED syncVars
  /\ UNCHANGED storeVars

setActiveCategory(c) ==
  /\ Click
  /\ view = "dashboard"
  /\ c # activeCategory
  /\ activeCategory' = c
  /\ TabEffect(view, c, selectedDate, data)
  /\ UNCHANGED <<view, selectedDate, data, client>>
  /\ UNCHANGED syncVars
  /\ UNCHANGED storeVars

handleDateChange(newDate) ==
  /\ Click
  /\ view = "dashboard"
  /\ newDate # selectedDate
  /\ selectedDate' = newDate
  /\ data' = InitData
  /\ TabEffect(view, activeCategory, newDate, InitData)
  /\ UNCHANGED <<view, activeCategory, client>>
  /\ UNCHANGED syncVars
  /\ UNCHANGED storeVars

setView(v) ==
  /\ Click
  /\ v # view
  /\ view' = v
  /\ TabEffect(v, activeCategory, selectedDate, data)
  /\ UNCHANGED <<activeCategory, selectedDate, data, client>>
  /\ UNCHANGED syncVars
  /\ UNCHANGED storeVars

(***************************************************************************)
(* Specifications                                                          *)
(***************************************************************************)
\* a row an earlier session left in the store
OldRow(category, date, key) == AddRow(Item(category, date, 1), key)

RECURSIVE Rekey(_, _)
Rekey(rows, key) ==
  IF rows = <<>> THEN <<>>
  ELSE <<[rows[1] EXCEPT !.id = key]>> \o Rekey(Tail(rows), key + 1)

\* what earlier sessions can have left: a row of yesterday or not, then rows
\* of today for some of the categories
Present ==
  { {<<c, Today>> : c \in CategorySet},
    {<<TRADING, Today>>, <<BID_WIN, Today>>, <<DEMAND, Today>>},
    {<<TENDER, D09>>, <<TRADING, Today>>, <<DEMAND, Today>>},
    {<<TENDER, Today>>, <<BID_WIN, Today>>},
    {<<TRADING, Today>>},
    {} }

InitStores ==
  { rows \in
      { Rekey(SelectSeq(<<OldRow(TENDER, D09, 0), OldRow(TRADING, Today, 0),
                          OldRow(TENDER, Today, 0), OldRow(BID_WIN, Today, 0),
                          OldRow(DEMAND, Today, 0)>>,
                        LAMBDA r : <<r.category, r.date>> \in present), 1) :
          present \in Present } :
      Len(getMissingCategoriesForDate(rows, Today)) <= MaxMissing }

InitApp ==
  /\ view = "dashboard"
  /\ activeCategory = TENDER
  /\ selectedDate = Today
  /\ isSyncing = FALSE
  /\ syncProgress = [current |-> "", total |-> 0, finished |-> 0]
  /\ data = InitData
  /\ status = InitStatus
  /\ calls = [t \in SyncSlots \cup UserSlots |-> Idle]
  /\ sync = [pc |-> "unmounted", missing |-> <<>>, i |-> 0, errors |-> 0, seen |-> 0]
  /\ syncLog = <<>>
  /\ clicks = 0

Init ==
  /\ InitApp
  /\ store \in InitStores
  /\ nextKey = Len(store) + 1
  /\ txq = <<>>
  /\ pending = <<>>
  /\ client = ClientIdle

Next ==
  \/ Mount
  \/ SyncChecked
  \/ \E t \in SyncSlots \cup UserSlots :
       \/ \E n \in ItemCounts : FetchOk(t, n)
       \/ FetchFail(t)
       \/ SaveCommit(t)
       \/ SaveFail(t)
  \/ Refresh
  \/ \E c \in CategorySet : setActiveCategory(c)
  \/ \E d \in PickerDates : handleDateChange(d)
  \/ \E v \in {"dashboard", "search"} : setView(v)

Spec == Init /\ [][Next]_vars

\* a promise that is pending settles: the provider answers or fails, and the
\* transaction at the head of the queue completes or aborts
CallStep(t) ==
  \/ \E n \in ItemCounts : FetchOk(t, n)
  \/ FetchFail(t)
  \/ SaveCommit(t)
  \/ SaveFail(t)

SpecLive == Spec /\ \A t \in SyncSlots \cup UserSlots : WF_vars(CallStep(t))

\* an empty store, or one an earlier session filled for every category of today
InitStore ==
  /\ InitApp
  /\ store \in {<<>>, AddRows([k \in 1..Len(Category) |-> Item(Category[k], D10, k)], 1)}
  /\ nextKey = Len(store) + 1
  /\ txq = <<>>
  /\ pending = <<>>
  /\ client = ClientIdle

NextStore ==
  \/ \E batch \in Batches : ClientSave(batch)
  \/ ClientAdd
  \/ ClientAddFail
  \/ ClientCommit
  \/ ClientCommitFail
  \/ \E params \in QueryParams : ClientQuery(params)
  \/ \E date \in {D08, D09, D10} : ClientMissing(date)
  \/ ClientReturn

SpecStore == InitStore /\ [][NextStore]_vars

\* the store is empty and nothing has been asked for
InitFetch ==
  /\ InitApp
  /\ store = <<>>
  /\ nextKey = 1
  /\ txq = <<>>
  /\ pending = <<>>
  /\ client = ClientIdle

NextFetch ==
  \/ \E r \in Requests : \E apiKey \in BOOLEAN : ClientFetch(r[1], r[2], apiKey)
  \/ /\ client.pc = "requested"
     /\ \E response \in Responses : ClientRespond(response)
  \/ ClientRespondFail
  \/ ClientClean
  \/ ClientParse
  \/ ClientExtract
  \/ ClientMap
  \/ ClientSaveFetched
  \/ ClientRender
  \/ ClientAdd
  \/ ClientAddFail
  \/ ClientCommit
  \/ ClientCommitFail

SpecFetch == InitFetch /\ [][NextFetch]_vars

(***************************************************************************)
(* Properties of the backfill pass and of loadCategoryData (Spec)          *)
(***************************************************************************)
Range(f) == {f[i] : i \in DOMAIN f}

\* position of a category in the enumeration
Pos(c) == CHOOSE i \in 1..Len(Category) : Category[i] = c

InFlightFor(c) == {t \in DOMAIN calls : InFlight(t) /\ calls[t].category = c}

\* C1: at most one fetch-and-ingest per category is in flight at any time,
\* whoever started it (the backfill pass, the tab-change effect, a refresh)
C1_OneFetchPerCategory ==
  \A c \in CategorySet : Cardinality(InFlightFor(c)) <= 1

\* C2: a call of the backfill pass is in flight only when every earlier one has
\* settled (its resolve or reject, the store write behind it) and no later one
\* has been issued: never two scheduler-driven fetches in flight
C2_SequentialBackfill ==
  \A t \in SyncSlots :
    InFlight(t) =>
      /\ \A u \in SyncSlots :
           /\ u < t => calls[u].pc \in {"resolved", "rejected"}
           /\ u > t => calls[u].pc = "idle"
      /\ \A k \in 1..Len(txq) : txq[k].owner \in SyncSlots => txq[k].owner = t

C2_Witness ==
  /\ calls[1].pc = "resolved"
  /\ calls[2].pc = "saving"
  /\ Len(store) > sync.seen

\* C3: the pass walks the list it computed once at session start: the categories
\* without a row of today among the rows the store held then, in enumeration
\* order; it calls the pipeline once for each, in that order, and for no other
\* category; once it has ended, nothing more is called
C3_OncePerMissingInOrder ==
  sync.pc \in {"awaiting", "done"} =>
    /\ \A c \in CategorySet :
         c \in Range(sync.missing) <=>
           ~\E r \in 1..sync.seen : store[r].date = Today /\ store[r].category = c
    /\ \A i, j \in 1..Len(sync.missing) :
         i < j => Pos(sync.missing[i]) < Pos(sync.missing[j])
    /\ Len(syncLog) <= Len(sync.missing)
    /\ syncLog = SubSeq(sync.missing, 1, Len(syncLog))
    /\ sync.pc = "done" =>
         /\ syncLog = sync.missing
         /\ \A t \in SyncSlots : ~InFlight(t)

C3_Witness ==
  /\ sync.pc = "done"
  /\ syncLog = <<TENDER, BID_WIN>>
  /\ sync.seen > 0
  /\ Len(store) > sync.seen

\* C4: a failed call of the pass (the fetch, or the store write) is caught: the
\* pass goes on to every remaining category and ends regularly, every failure
\* logged
C4_FailureDoesNotAbort ==
  /\ sync.pc = "awaiting" => InFlight(sync.i)
  /\ sync.pc = "done" =>
       /\ \A k \in 1..Len(sync.missing) : calls[k].pc \in {"resolved", "rejected"}
       /\ sync.errors = Cardinality({k \in SyncSlots : calls[k].pc = "rejected"})

C4_Witness ==
  /\ sync.pc = "done"
  /\ calls[1].pc = "rejected"
  /\ calls[2].pc = "resolved"

\* C5: 0 <= finished <= total; total is the number of missing categories found;
\* finished is the number of calls of the pass that have settled, resolved or
\* rejected; at the end finished = total and isSyncing is false
C5_Progress ==
  /\ 0 <= syncProgress.finished
  /\ syncProgress.finished <= syncProgress.total
  /\ sync.pc \in {"awaiting", "done"} => syncProgress.total = Len(sync.missing)
  /\ syncProgress.finished =
       Cardinality({t \in SyncSlots : calls[t].pc \in {"resolved", "rejected"}})
  /\ sync.pc = "awaiting" => isSyncing /\ syncProgress.current = sync.missing[sync.i]
  /\ sync.pc = "done" => syncProgress.finished = syncProgress.total /\ ~isSyncing

C5_Witness ==
  /\ sync.pc = "done"
  /\ syncProgress.finished = 2
  /\ sync.errors = 1

(***************************************************************************)
(* Properties of the store module (SpecStore)                              *)
(***************************************************************************)
\* a stored row without its key
Content(r) ==
  [category |-> r.category, date |-> r.date, title |-> r.title,
   region |-> r.region, entity |-> r.entity]

\* C6: getMissingCategoriesForDate(d) returns exactly the categories of the
\* enumeration that have no row dated d, in enumeration order, each once; the
\* empty list when all four have one; rows of other dates do not count
C6_MissingCategories ==
  client.pc = "checked" =>
    LET absent(c) == \A k \in 1..Len(store) :
                       ~(store[k].date = client.date /\ store[k].category = c)
        missing == client.missing
    IN  /\ \A c \in CategorySet : c \in Range(missing) <=> absent(c)
        /\ Range(missing) \subseteq CategorySet
        /\ \A i, j \in 1..Len(missing) : i < j => Pos(missing[i]) < Pos(missing[j])
        /\ (\A c \in CategorySet : ~absent(c)) => missing = <<>>

C6_Witness ==
  /\ client.pc = "checked"
  /\ client.date = D08
  /\ client.missing = <<TENDER, BID_WIN, DEMAND>>
  /\ \E k \in 1..Len(store) : store[k].category = TENDER /\ store[k].date = D09

C6_WitnessNoneMissing ==
  /\ client.pc = "checked"
  /\ client.missing = <<>>

\* C7: saveDailyData is all or nothing: after a failed batch the store is what
\* it was before the batch; after a successful one it holds, behind what it
\* held, one row for every item of the batch
C7_BatchAllOrNothing ==
  /\ client.pc = "failed" => store = client.base
  /\ client.pc = "saved" =>
       /\ Len(store) = Len(client.base) + Len(client.items)
       /\ SubSeq(store, 1, Len(client.base)) = client.base
       /\ \A k \in 1..Len(client.items) :
            Content(store[Len(client.base) + k]) = client.items[k]

C7_Witness ==
  /\ client.pc = "failed"
  /\ Len(client.items) = 2
  /\ client.added = 1
  /\ Len(store) > 0

StrLeq(s, t) == s = t \/ StrLess(s, t)

\* sub occurs in s
Substring(sub, s) == \E pre, suf \in 0..Len(s) :
                       /\ pre + Len(sub) + suf = Len(s)
                       /\ \A k \in 1..Len(sub) : s[pre + k] = sub[k]

\* sub occurs in s up to the case of the letters
SubstringNoCase(sub, s) ==
  \E pre, suf \in 0..Len(s) :
    /\ pre + Len(sub) + suf = Len(s)
    /\ \A k \in 1..Len(sub) : LowerChar(s[pre + k]) = LowerChar(sub[k])

\* a field of the parameters is set: neither undefined nor empty
IsSet(o) == o # <<>> /\ Len(o[1]) > 0

Satisfies(r, p) ==
  /\ IsSet(p.startDate) => StrLeq(p.startDate[1], r.date)
  /\ IsSet(p.endDate) => StrLeq(r.date, p.endDate[1])
  /\ p.category # <<>> => r.category = p.category[1]
  /\ IsSet(p.region) => Substring(p.region[1], r.region)
  /\ IsSet(p.entityKeyword) =>
       \/ SubstringNoCase(p.entityKeyword[1], r.entity)
       \/ SubstringNoCase(p.entityKeyword[1], r.title)

\* C9: queryMarketData(params) returns exactly the stored rows that satisfy
\* every set predicate, each once
C9_QueryFilters ==
  client.pc = "queried" =>
    /\ Range(client.rows) = {store[k] : k \in {i \in 1..Len(store) :
                                                 Satisfies(store[i], client.params)}}
    /\ \A i, j \in 1..Len(client.rows) : i # j => client.rows[i] # client.rows[j]

C9_Witness ==
  /\ client.pc = "queried"
  /\ IsSet(client.params.startDate)
  /\ IsSet(client.params.endDate)
  /\ client.params.category # <<>>
  /\ IsSet(client.params.region)
  /\ client.params.entityKeyword = <<Str("B")>>
  /\ Len(client.rows) = 1
  /\ Len(store) = 3

C9_WitnessEmptyField ==
  /\ client.pc = "queried"
  /\ client.params.startDate = <<<<>>>>
  /\ client.params.region = <<<<>>>>
  /\ client.params.category = <<TENDER>>
  /\ Len(client.rows) = 2
  /\ Len(store) = 3

NoFilter(p) ==
  /\ p.startDate = <<>>
  /\ p.endDate = <<>>
  /\ p.category = <<>>
  /\ p.region = <<>>
  /\ p.entityKeyword = <<>>

\* C10: queryMarketData({}) returns every stored row once, dates not increasing,
\* rows of one date in the order of their insertion; the store stays as it was
C10_QueryAllSorted ==
  /\ [](client.pc = "queried" /\ NoFilter(client.params) =>
          LET rows == client.rows
          IN  /\ Len(rows) = Len(store)
              /\ Range(rows) = Range(store)
              /\ \A i, j \in 1..Len(rows) :
                   i < j =>
                     /\ ~StrLess(rows[i].date, rows[j].date)
                     /\ rows[i].date = rows[j].date => rows[i].id < rows[j].id)
  /\ [][client'.pc = "queried" /\ client.pc # "queried" => store' = store]_vars

C10_Witness ==
  /\ client.pc = "queried"
  /\ NoFilter(client.params)
  /\ Len(store) = 3
  /\ store[1].date = D08
  /\ store[2].date = D10
  /\ store[3].date = D10
  /\ store[2] # store[3]
  /\ client.rows = <<store[2], store[3], store[1]>>

(***************************************************************************)
(* Properties of loadCategoryData under a failing store and under the      *)
(* user's navigation (Spec)                                                *)
(***************************************************************************)
\* the call of slot t is awaiting the transaction of its saveDailyData and
\* rejects in this step
SaveRejects(t) == Saving(t) /\ calls'[t].pc = "rejected"

\* C11: when the fetch returned items and the store write fails, the failure
\* reaches the caller and the fetched result is still placed in data[category]
C11_ResultKeptOnStoreFailure ==
  [][\A t \in DOMAIN calls :
       SaveRejects(t) =>
         data'[calls[t].category] = <<[items |-> calls[t].items]>>]_vars

\* what the step does do when the store write fails: the call rejects, data
\* stays as it was, and a call that is not silent shows the error in place of
\* the loading flag
C11_ResultDroppedOnStoreFailure ==
  [][\A t \in DOMAIN calls :
       SaveRejects(t) =>
         /\ data' = data
         /\ store' = store
         /\ ~calls[t].silent =>
              status'[calls[t].category] = [loading |-> FALSE, error |-> <<StoreError>>]
         /\ calls[t].silent =>
              status'[calls[t].category] = status[calls[t].category]]_vars

\* the call of slot t commits its batch in this step
SaveCommits(t) == calls[t].pc = "saving" /\ calls'[t].pc = "resolved"

Settled(t) == calls[t].pc \in {"resolved", "rejected"}

\* the step leaves the call of slot t as it is or takes it one stage on, for the
\* category and the date it was issued with
RunsOn(t) ==
  \/ calls'[t] = calls[t]
  \/ /\ calls[t].pc = "fetching"
     /\ calls'[t].pc = "saving"
     /\ calls'[t].category = calls[t].category
     /\ calls'[t].date = calls[t].date
  \/ Settled(t)'

\* C19: nothing cancels a fetch.  No step but its own takes a call in flight
\* out of flight or changes what it was issued for, the rows it writes carry the
\* category and the date it was issued with whatever the page shows by then,
\* and every call in flight settles
C19_NoCancellation ==
  /\ [][\A t \in DOMAIN calls :
          /\ InFlight(t) => RunsOn(t)
          /\ SaveCommits(t) =>
               /\ Len(store') = Len(store) + Len(calls[t].items)
               /\ Len(calls[t].items) > 0
               /\ \A i \in (Len(store) + 1)..Len(store') :
                    /\ store'[i].category = calls[t].category
                    /\ store'[i].date = calls[t].date]_vars
  /\ \A t \in SyncSlots \cup UserSlots : InFlight(t) ~> Settled(t)

\* the date was changed while the load of the first render was in flight (a
\* change after it had settled starts a load in the next slot), and its rows
\* are in the store under the date it was issued with
C19_Witness ==
  /\ selectedDate = D09
  /\ activeCategory = TENDER
  /\ sync.pc = "done"
  /\ \A k \in 1..Len(sync.missing) : sync.missing[k] # TENDER
  /\ calls[Len(Category) + 1].pc = "resolved"
  /\ calls[Len(Category) + 2].pc = "idle"
  /\ store[Len(store)].category = TENDER
  /\ store[Len(store)].date = Today
  /\ store[Len(store)].id = nextKey - 1
  /\ data[TENDER] # null
  /\ Len(data[TENDER][1].items) = 2
  /\ data[TENDER][1].items[1].date = Today

\* the category was changed while the load of the first render was in flight
C19_WitnessCategory ==
  /\ activeCategory = DEMAND
  /\ selectedDate = Today
  /\ calls[Len(Category) + 1].pc = "saving"
  /\ calls[Len(Category) + 1].category = TENDER
  /\ calls[Len(Category) + 2].pc = "fetching"
  /\ calls[Len(Category) + 2].category = DEMAND

\* the transaction of slot t in the queue
TxOf(t) == {i \in 1..Len(txq) : txq[i].owner = t}

\* C20: a manual refresh and a backfill fetch of another category are in flight
\* together, each with its transaction, and whatever the order of the commits
\* each commit appends all its rows, under keys of their own, and leaves the
\* rows of the store as they are; nothing else changes the store
C20_ConcurrentBatchesKept ==
  /\ [](\A t \in DOMAIN calls :
          calls[t].pc = "saving" =>
            /\ Cardinality(TxOf(t)) = 1
            /\ \A i \in TxOf(t) : txq[i].items = calls[t].items)
  /\ [](\A i, j \in 1..Len(store) : store[i].id = store[j].id => i = j)
  /\ [][\A t \in DOMAIN calls :
          SaveCommits(t) =>
            /\ SubSeq(store', 1, Len(store)) = store
            /\ Len(store') = Len(store) + Len(calls[t].items)
            /\ \A k \in 1..Len(calls[t].items) :
                 Content(store'[Len(store) + k]) = calls[t].items[k]]_vars
  /\ [][store' # store => \E t \in DOMAIN calls : SaveCommits(t)]_vars

\* the refresh button was pressed after the load of the first render, and its
\* batch waits with the one of a backfill fetch of another category
C20_Witness ==
  /\ clicks = 1
  /\ view = "dashboard"
  /\ activeCategory = TENDER
  /\ selectedDate = Today
  /\ calls[Len(Category) + 2].pc = "saving"
  /\ calls[Len(Category) + 2].category = TENDER
  /\ Len(txq) = 2
  /\ \E t \in SyncSlots :
       /\ calls[t].pc = "saving"
       /\ calls[t].category # TENDER
       /\ Len(calls[t].items) = 2

\* both have committed, the refresh first: the two rows of each are in the store
C20_WitnessBoth ==
  /\ clicks = 1
  /\ view = "dashboard"
  /\ activeCategory = TENDER
  /\ selectedDate = Today
  /\ calls[Len(Category) + 2].pc = "resolved"
  /\ txq = <<>>
  /\ Len(store) >= 4
  /\ LET n == Len(store)
     IN  /\ store[n - 3].category = TENDER
         /\ store[n - 2].category = TENDER
         /\ store[n - 3].title # store[n - 2].title
         /\ store[n - 1].category = store[n].category
         /\ store[n].category # TENDER
         /\ store[n - 1].title # store[n].title
         /\ {store[i].id : i \in (n - 3)..n} = (nextKey - 4)..(nextKey - 1)

\* the fetch of the call of slot t rejects in this step
FetchRejects(t) == calls[t].pc = "fetching" /\ calls'[t].pc = "rejected"

\* a call is issued in slot t in this step
Issued(t) == calls[t].pc = "idle" /\ calls'[t].pc = "fetching"

\* C21: when the fetch of a call that is not silent fails, no row is inserted,
\* the status of the category shows the message with the loading flag down, the
\* call rejects to its caller, and nothing fetches again of itself: the step
\* issues no call, and a call outside the backfill is issued only by the first
\* render or by an act of the user
C21_FetchFailureShown ==
  /\ [][\A t \in DOMAIN calls :
          FetchRejects(t) /\ ~calls[t].silent =>
            /\ store' = store
            /\ txq' = txq
            /\ data' = data
            /\ status'[calls[t].category] = [loading |-> FALSE, error |-> <<FetchError>>]
            /\ \A u \in DOMAIN calls : ~Issued(u)]_vars
  /\ [][\A u \in UserSlots :
          Issued(u) => sync.pc = "unmounted" \/ clicks' = clicks + 1]_vars

\* the load of the first render failed, and nothing has happened since
C21_Witness ==
  /\ calls[Len(Category) + 1].pc = "rejected"
  /\ status[TENDER] = [loading |-> FALSE, error |-> <<FetchError>>]
  /\ data[TENDER] = null
  /\ clicks = 0
  /\ sync.pc = "done"
  /\ \A t \in DOMAIN calls : ~InFlight(t)
  /\ \A i \in 1..Len(store) : store[i].id <= sync.seen

\* a call of the backfill fails in this step, in its fetch or in its save
SilentRejects(t) == InFlight(t) /\ calls[t].silent /\ calls'[t].pc = "rejected"

\* C22: a failed backfill fetch changes no status, neither the error nor the
\* loading flag of its category; it changes no cached result and no row, and
\* what it leaves is one more logged error and one more finished turn
C22_SilentFailureUnseen ==
  [][\A t \in DOMAIN calls :
       SilentRejects(t) =>
         /\ status' = status
         /\ data' = data
         /\ store' = store
         /\ <<view, activeCategory, selectedDate>>' = <<view, activeCategory, selectedDate>>
         /\ sync'.errors = sync.errors + 1
         /\ syncProgress'.finished = syncProgress.finished + 1]_vars

\* the backfill call of a category failed and the status of the category shows
\* no error; the loading flag that is up is that of the user's own call
C22_Witness ==
  \E t \in SyncSlots :
    /\ calls[t].pc = "rejected"
    /\ sync.errors >= 1
    /\ syncProgress.finished >= 1
    /\ activeCategory = syncLog[t]
    /\ status[syncLog[t]] = [loading |-> TRUE, error |-> null]
    /\ calls[Len(Category) + 2].pc = "fetching"
    /\ calls[Len(Category) + 2].category = syncLog[t]

\* C25: a cached result is one that was fetched for the selected date
C25_CacheOfSelectedDate ==
  \A c \in CategorySet :
    data[c] # null =>
      \A k \in 1..Len(data[c][1].items) : data[c][1].items[k].date = selectedDate

\* what holds of the cache: its items are of the category it is filed under
C25_CacheOfItsCategory ==
  \A c \in CategorySet :
    data[c] # null =>
      \A k \in 1..Len(data[c][1].items) : data[c][1].items[k].category = c

\* C26: while a call that is not silent is in flight for a category, the
\* loading flag of the category is up
C26_LoadingWhileInFlight ==
  \A t \in DOMAIN calls :
    InFlight(t) /\ ~calls[t].silent => status[calls[t].category].loading

\* what holds of the flag: only the end of a call for the category takes it down
C26_LoadingDownOnlyBySettle ==
  [][\A c \in CategorySet :
       status[c].loading /\ ~status'[c].loading =>
         \E t \in DOMAIN calls :
           /\ InFlight(t)
           /\ calls[t].category = c
           /\ Settled(t)']_vars

\* the call of slot t resolves in this step without a save: it fetched no item
ResolvesEmpty(t) == calls[t].pc = "fetching" /\ calls'[t].pc = "resolved"

\* C27: a fetch that succeeds with no item inserts nothing: no transaction is
\* opened (none is ever opened without items), the store and the key generator
\* stay as they are, the empty result is cached with the loading flag down and
\* no error, and the category has a row of that date after the step only if it
\* had one before
C27_EmptyResultNoInsert ==
  /\ [](\A i \in 1..Len(txq) : Len(txq[i].items) > 0)
  /\ [][\A t \in DOMAIN calls :
          ResolvesEmpty(t) =>
            /\ store' = store
            /\ txq' = txq
            /\ pending' = pending
            /\ nextKey' = nextKey
            /\ data'[calls[t].category] = <<[items |-> <<>>]>>
            /\ status'[calls[t].category] = [loading |-> FALSE, error |-> null]
            /\ hasDataForDate(store', calls[t].date, calls[t].category)
                 = hasDataForDate(store, calls[t].date, calls[t].category)]_vars

\* a backfill fetch for a category without a row of today came back empty
C27_Witness ==
  \E t \in SyncSlots :
    /\ calls[t].pc = "resolved"
    /\ data[syncLog[t]] = <<[items |-> <<>>]>>
    /\ status[syncLog[t]] = [loading |-> FALSE, error |-> null]
    /\ ~hasDataForDate(store, Today, syncLog[t])
    /\ Len(store) = sync.seen
    /\ txq = <<>>

\* a call that is not silent is in flight for the category
BusyFor(c) ==
  \E t \in DOMAIN calls : InFlight(t) /\ ~calls[t].silent /\ calls[t].category = c

\* C28: the loading flag of a category is up only while a call that is not
\* silent is in flight for it, and it always comes down again
C28_LoadingComesDown ==
  /\ [](\A c \in CategorySet : status[c].loading => BusyFor(c))
  /\ \A c \in CategorySet : status[c].loading ~> ~status[c].loading

\* the flag came down with a failed save: the error of the store is shown
C28_Witness ==
  /\ status[TENDER] = [loading |-> FALSE, error |-> <<StoreError>>]
  /\ calls[Len(Category) + 1].pc = "rejected"

\* the flag is up
C28_WitnessUp ==
  /\ status[TENDER].loading
  /\ calls[Len(Category) + 1].pc = "saving"

(***************************************************************************)
(* Properties of fetchMarketIntelligence (SpecFetch)                       *)
(***************************************************************************)
\* C12: whatever body the provider returns, fetchMarketIntelligence returns a
\* SearchResult and reports no error; a text that does not parse gives a
\* result without items
C12_BodyNeverAnError ==
  /\ client.pc = "thrown" => client.message \in {KeyError, ProviderError}
  /\ client.pc = "returned" /\ ~JSONparse(client.cleanJson).ok => client.items = <<>>

\* what holds of the bodies: one that does not parse gives a result without
\* items, and an error comes only from a null among the raw items
C12_BodyErrorOnlyFromNullItem ==
  /\ client.pc = "thrown" /\ client.message \notin {KeyError, ProviderError} =>
       \E k \in 1..Len(client.rawItems) : client.rawItems[k] = JNull
  /\ client.pc = "returned" /\ client.fallback => client.items = <<>>

\* C13: for a text that is valid JSON the cleaning changes nothing of the
\* parse: the parsed value is the value of the text as it came
C13_ValidJsonUntouched ==
  client.pc = "parsed" /\ JSONparse(client.text).ok =>
    /\ ~client.fallback
    /\ client.parsedData = JSONparse(client.text).v

\* what holds of valid JSON: the rewrite of source_indices leaves it alone, and
\* so does the whole cleaning when no string of it holds a code fence
C13_ValidJsonUntouchedWithoutFence ==
  client.pc = "parsed" /\ JSONparse(client.text).ok =>
    /\ fixSourceIndices(client.text) = client.text
    /\ (\A i \in 1..Len(client.text) : client.text[i] # Fence) =>
         /\ ~client.fallback
         /\ client.parsedData = JSONparse(client.text).v

\* the positions of the text where a "source_indices" key stands directly,
\* spaces apart, before one of the delimiters
GapsBefore(text, delimiters) ==
  {i \in 1..Len(text) :
     /\ MatchLen(text, i) > 0
     /\ text[i + MatchLen(text, i)] \in delimiters}

\* the raw item lacks the field
Absent(raw, f) == TypeOf(raw) # "object" \/ \A i \in 1..Len(ValueOf(raw)) : ValueOf(raw)[i].k # <<f>>

\* the raw item has the field, with this value
Has(raw, f, x) ==
  /\ TypeOf(raw) = "object"
  /\ \E i \in 1..Len(ValueOf(raw)) : ValueOf(raw)[i] = [k |-> <<f>>, v |-> x]

Sentinel(f) ==
  CASE f = "title" -> DefaultTitle
    [] f = "region" -> DefaultRegion
    [] f = "entity" -> DefaultEntity
    [] f = "amount" -> DefaultAmount
    [] f = "summary" -> DefaultSummary

\* the value the provider meant is what was parsed, and an item whose array of
\* indices it left out has no indices, no sources, and the sentinels for the
\* fields that the raw item lacks
RepairedAsMeant ==
  /\ client.pc = "parsed" =>
       /\ ~client.fallback
       /\ client.parsedData = client.response.meant
  /\ client.pc = "returned" =>
       /\ Len(client.items) = Len(rawItemsOf(client.response.meant))
       /\ \A k \in 1..Len(client.items) :
            LET raw == rawItemsOf(client.response.meant)[k]
            IN  Has(raw, "source_indices", JArr(<<>>)) =>
                  /\ client.items[k].sourceIndices = <<>>
                  /\ client.items[k].sources = <<>>
                  /\ \A f \in FieldNames : Absent(raw, f) => client.items[k][f] = Sentinel(f)

HasResponse == client.pc \in {"responded", "cleaned", "parsed", "extracted", "returned"}

C14_WitnessBeforeBracket ==
  /\ client.pc = "returned"
  /\ client.response.mode = "omittedOpen"
  /\ GapsBefore(client.text, {"]"}) # {}
  /\ client.items = <<>>

\* the positions of an index list that name a source of the list
InRange(indices, sources) ==
  {j \in 1..Len(indices) :
     TypeOf(indices[j]) = "number" /\ ValueOf(indices[j]) \in 1..Len(sources)}

\* the sources an index list of numbers resolves to: one entry for every
\* position in range, in the order of the positions
Resolves(indices, sources, resolved) ==
  LET valid == InRange(indices, sources)
  IN  /\ Len(resolved) = Cardinality(valid)
      /\ \A j \in valid :
           resolved[Cardinality({i \in valid : i <= j})] = sources[ValueOf(indices[j])]

AllNumbers(indices) == \A j \in 1..Len(indices) : TypeOf(indices[j]) = "number"

\* C15: the sources of an item are sources[i - 1] for each i of its indices with
\* 1 <= i <= sources.length, in the order of the indices and with duplicates
\* kept; an index out of range adds no entry and raises no error
C15_ResolveInOrder ==
  /\ client.pc = "returned" =>
       \A k \in 1..Len(client.items) :
         AllNumbers(client.items[k].sourceIndices) =>
           Resolves(client.items[k].sourceIndices, client.sources, client.items[k].sources)
  /\ client.pc = "thrown" /\ "rawItems" \in DOMAIN client =>
       \E k \in 1..Len(client.rawItems) : ~Readable(client.rawItems[k])

C15_Witness ==
  /\ client.pc = "returned"
  /\ Len(client.sources) = 2
  /\ Len(client.items) = 1
  /\ client.items[1].sourceIndices = <<JNum(3), JNum(1), JNum(1), JNum(0), JNum(2)>>
  /\ client.items[1].sources =
       <<client.sources[1], client.sources[1], client.sources[2]>>
  /\ client.sources[1] # client.sources[2]

\* C16: an item has no more sources than indices, its indices are those of the
\* raw item with nothing filtered out, its sources are among the sources of the
\* fetch, and a stored row has no more sources than indices
C16_SourcesWithinIndices ==
  /\ client.pc = "returned" =>
       \A k \in 1..Len(client.items) :
         /\ Len(client.items[k].sources) <= Len(client.items[k].sourceIndices)
         /\ LET raw == Get(client.rawItems[k], "source_indices")
            IN  client.items[k].sourceIndices =
                  IF TypeOf(raw) = "array" THEN ValueOf(raw) ELSE <<>>
         /\ \A j \in 1..Len(client.items[k].sources) :
              client.items[k].sources[j] \in Range(client.sources)
  /\ \A i \in 1..Len(store) :
       Len(store[i].sources) <= Len(store[i].sourceIndices)

C16_Witness ==
  /\ client.pc = "saved"
  /\ Len(store) = 1
  /\ store[1].sourceIndices = <<JNum(3), JNum(1), JNum(1), JNum(0), JNum(2)>>
  /\ Len(store[1].sources) = 3

\* the category and the date are those asked for, and the indices are the
\* array of the raw item, or empty when it has none
NormalizedAsAsked(k) ==
  /\ client.items[k].category = client.category
  /\ client.items[k].date = client.date
  /\ \A x \in {Get(client.rawItems[k], "source_indices")} :
       client.items[k].sourceIndices = IF TypeOf(x) = "array" THEN ValueOf(x) ELSE <<>>

\* C17: the item has the category and the date asked for, the sentinel for
\* every field the raw item lacks, no indices when source_indices is not an
\* array, and every field the raw item has, null apart, as the raw item has it
C17_PresentFieldCopied ==
  client.pc = "returned" =>
    \A k \in 1..Len(client.items) :
      /\ NormalizedAsAsked(k)
      /\ \A f \in FieldNames :
           /\ Absent(client.rawItems[k], f) => client.items[k][f] = Sentinel(f)
           /\ ~Absent(client.rawItems[k], f) /\ Get(client.rawItems[k], f) # JNull =>
                client.items[k][f] = Get(client.rawItems[k], f)

\* C17 as the code has it: a field that is absent, null, the empty string or
\* the number 0 gets the sentinel, and any other value is copied as it is
C17_TruthyFieldCopied ==
  client.pc = "returned" =>
    \A k \in 1..Len(client.items) :
      /\ NormalizedAsAsked(k)
      /\ \A f \in FieldNames :
           LET x == Get(client.rawItems[k], f)
           IN  /\ Absent(client.rawItems[k], f) => client.items[k][f] = Sentinel(f)
               /\ x \in {JNull, JStr(<<>>), JNum(0)} => client.items[k][f] = Sentinel(f)
               /\ ~Absent(client.rawItems[k], f) /\ x \notin {JNull, JStr(<<>>), JNum(0)} =>
                    client.items[k][f] = x

\* the scenario of the specification: a title, a summary and one index
C17_Witness ==
  /\ client.pc = "returned"
  /\ client.category = TENDER
  /\ client.sources = <<[title |-> "A", uri |-> "a"]>>
  /\ Len(client.items) = 1
  /\ client.items[1].category = TENDER
  /\ client.items[1].date = D10
  /\ client.items[1].title = JStr(<<"A">>)
  /\ client.items[1].summary = JStr(<<"A", Space, "[", "1", "]">>)
  /\ client.items[1].region = DefaultRegion
  /\ client.items[1].amount = DefaultAmount
  /\ client.items[1].sourceIndices = <<JNum(1)>>
  /\ client.items[1].sources = <<[title |-> "A", uri |-> "a"]>>

C17_WitnessEmptyTitle ==
  /\ client.pc = "returned"
  /\ client.rawItems = <<JObj(<<Prop("title", JStr(<<>>))>>)>>
  /\ client.items[1].title = DefaultTitle

\* C18: the map of the raw items never throws, and every item has strings for
\* title, region, entity, amount and summary and numbers for its indices,
\* whatever the raw items are
C18_NormalizerTotalAndTyped ==
  /\ client.pc = "thrown" => client.message # TypeError
  /\ client.pc = "returned" =>
       \A k \in 1..Len(client.items) :
         /\ \A f \in FieldNames : TypeOf(client.items[k][f]) = "string"
         /\ AllNumbers(client.items[k].sourceIndices)

\* what holds of the map: it throws only on a raw item that is null, and no
\* field of an item is undefined, but a field and an index keep the type the
\* raw item gave them
C18_NormalizerDefinedNotTyped ==
  /\ client.pc = "thrown" /\ client.message = TypeError =>
       \E k \in 1..Len(client.rawItems) : client.rawItems[k] = JNull
  /\ client.pc = "returned" =>
       \A k \in 1..Len(client.items) :
         \A f \in FieldNames :
           /\ TypeOf(client.items[k][f]) # "undefined"
           /\ TypeOf(client.items[k][f]) # "string" =>
                client.items[k][f] = Get(client.rawItems[k], f)

\* the arrays that an object holds under the key "items"
ItemsArrays(p) ==
  IF TypeOf(p) # "object" THEN {}
  ELSE {ValueOf(ValueOf(p)[i].v) :
          i \in {j \in 1..Len(ValueOf(p)) :
                   ValueOf(p)[j].k = <<"items">> /\ TypeOf(ValueOf(p)[j].v) = "array"}}

\* C24: the list of raw items is the parsed value when that is an array, the
\* array under "items" when it is an object that has one, and empty for every
\* other parsed value: null, a number, a string, an object without such an array
C24_ItemListShapes ==
  client.pc = "extracted" =>
    /\ TypeOf(client.parsedData) = "array" =>
         client.rawItems = ValueOf(client.parsedData)
    /\ ItemsArrays(client.parsedData) # {} =>
         client.rawItems \in ItemsArrays(client.parsedData)
    /\ TypeOf(client.parsedData) # "array" /\ ItemsArrays(client.parsedData) = {} =>
         client.rawItems = <<>>

C24_Witness ==
  /\ client.pc = "extracted"
  /\ ~client.fallback
  /\ TypeOf(client.parsedData) = "object"
  /\ Len(client.rawItems) = 2
  /\ client.rawItems[1] # client.rawItems[2]

C24_WitnessArray ==
  /\ client.pc = "extracted"
  /\ TypeOf(client.parsedData) = "array"
  /\ Len(client.rawItems) = 2

C24_WitnessOther ==
  /\ client.pc = "extracted"
  /\ ~client.fallback
  /\ client.parsedData \in {JNull, JNum(1), JStr(<<"A">>), JObj(<<Prop("items", JObj(<<>>))>>),
                            JObj(<<Prop("title", JStr(<<"A">>))>>)}
  /\ client.rawItems = <<>>

\* the text is a marker: digits, one at least, between brackets
IsMarker(t) ==
  /\ Len(t) >= 3
  /\ t[1] = "["
  /\ t[Len(t)] = "]"
  /\ \A i \in 2..(Len(t) - 1) : IsDigit(t[i])

\* the number a marker holds
MarkerNumber(t) == Decimal(SubSeq(t, 2, Len(t) - 1))

HoldsMarker(t) ==
  \E a \in 1..Len(t) : \E b \in a..Len(t) : IsMarker(SubSeq(t, a, b))

\* the parts are the summary, markers and the text between them, and a marker
\* [n] links to sources[n - 1], the source the resolver has for the index n,
\* exactly when 1 <= n <= sources.length
CitedAsResolved(summary, parts, sources) ==
  /\ Flatten([j \in 1..Len(parts) |-> parts[j].text]) = summary
  /\ \A j \in 1..Len(parts) :
       IF IsMarker(parts[j].text)
       THEN LET n == MarkerNumber(parts[j].text)
            IN  /\ n \in 1..Len(sources) =>
                     /\ parts[j].link = <<n - 1>>
                     /\ parts[j].title = <<sources[n].title>>
                     /\ sourceAt(JNum(n), sources) = <<sources[n]>>
                /\ n \notin 1..Len(sources) =>
                     /\ parts[j].link = <<>>
                     /\ sourceAt(JNum(n), sources) = <<>>
       ELSE /\ parts[j].link = <<>>
            /\ ~HoldsMarker(parts[j].text)

\* C23: the card resolves each marker [n] of a summary against the sources of
\* the fetch as the resolver resolves the index n: a link to sources[n - 1] when
\* 1 <= n <= sources.length, plain text otherwise, whatever the item's own
\* indices are
C23_CitationsAsResolver ==
  client.pc = "rendered" =>
    \A k \in 1..Len(client.items) :
      /\ client.cited[k].kind # "throws"
      /\ client.cited[k].kind = "null" <=> client.items[k].summary = DefaultSummary
      /\ client.cited[k].kind = "span" =>
           CitedAsResolved(ValueOf(client.items[k].summary), client.cited[k].parts,
                           client.sources)

\* the marker [2] is a link to the second source though the item's own indices
\* hold 1 only
C23_Witness ==
  /\ client.pc = "rendered"
  /\ Len(client.sources) = 2
  /\ Len(client.items) = 1
  /\ client.items[1].sourceIndices = <<JNum(1)>>
  /\ client.items[1].sources = <<client.sources[1]>>
  /\ client.items[1].summary = JStr(<<"A", "[", "2", "]">>)
  /\ client.cited[1].parts =
       << [text |-> <<"A">>, link |-> <<>>, title |-> <<>>],
          [text |-> <<"[", "2", "]">>, link |-> <<1>>, title |-> <<client.sources[2].title>>],
          [text |-> <<>>, link |-> <<>>, title |-> <<>>] >>

\* markers below and above the sources stay plain text
C23_WitnessOutOfRange ==
  /\ client.pc = "rendered"
  /\ Len(client.items) = 1
  /\ Len(client.sources) = 2
  /\ client.items[1].summary = JStr(<<"[", "0", "]", "A", "[", "3", "]">>)
  /\ Len(client.cited[1].parts) = 5
  /\ \A j \in 1..5 : client.cited[1].parts[j].link = <<>>

\* the marker [1] of the scenario with no source at all
C23_WitnessNoSources ==
  /\ client.pc = "rendered"
  /\ Len(client.items) = 1
  /\ client.sources = <<>>
  /\ client.items[1].summary = JStr(<<"A", Space, "[", "1", "]">>)
  /\ client.cited[1].parts[2] = [text |-> <<"[", "1", "]">>, link |-> <<>>, title |-> <<>>]

\* what the card does with a summary that is no string: its render throws
C23_WitnessCrash ==
  /\ client.pc = "crashed"
  /\ Len(client.items) = 1
  /\ client.items[1].summary = JNum(5)

====
